---- MODULE Spec2Model ----
(***************************************************************************)
(* Registration portal: the record stores of simple_crud.py (JSON file),   *)
(* crud_operations.py (MySQL, CLI) and app.py (MySQL, web admin panel).    *)
(*                                                                         *)
(* A run uses one backing store, chosen at start: "json" is the            *)
(* SimpleRegistrationManager, "mysql" is the submissions table that the    *)
(* CLI and the web application share.  Text is a sequence of one-character *)
(* strings so that strip(), lower(), `in` and SQL LIKE are computed.       *)
(***************************************************************************)
EXTENDS Integers, Sequences, FiniteSets, TLC

(***************************************************************************)
(* Bounds                                                                  *)
(***************************************************************************)
MaxRecs == 2        \* most records the JSON store holds
MaxId == 3          \* most AUTO_INCREMENT values handed out
MaxConns == 2       \* most connections open at once
MaxLimit == 1       \* largest limit passed to view_records
MaxNow == 14        \* the day on which the clock stops

\* clients of the database: processes running crud_operations.py and
\* sessions of the web application app.py
CliSessions == {1}
WebSessions == {2}
\* a process running export_images.py
ToolSessions == {3}
\* a second client of the kind a run is about: a second process running
\* crud_operations.py, a second browser session of app.py
PeerSessions == {4}
Sessions == CliSessions \cup WebSessions \cup ToolSessions \cup PeerSessions

\* the process that holds the SimpleRegistrationManager
Managers == {1}

(***************************************************************************)
(* Text                                                                    *)
(***************************************************************************)
\* Python None for an optional string
None == <<"<None>">>

\* str.lower(), one character
LowerChar(c) ==
    CASE c = "A" -> "a" [] c = "B" -> "b" [] c = "C" -> "c" [] c = "D" -> "d"
      [] c = "E" -> "e" [] c = "H" -> "h" [] c = "N" -> "n" [] c = "O" -> "o"
      [] c = "R" -> "r" [] c = "S" -> "s" [] c = "T" -> "t" [] c = "Y" -> "y"
      [] OTHER -> c

\* str.lower()
Lower(str) == [i \in DOMAIN str |-> LowerChar(str[i])]

IsSpace(c) == c = " "

RECURSIVE LStrip(_)
LStrip(str) ==
    IF str # <<>> /\ IsSpace(Head(str)) THEN LStrip(Tail(str)) ELSE str

RECURSIVE RStrip(_)
RStrip(str) ==
    IF str # <<>> /\ IsSpace(str[Len(str)])
    THEN RStrip(SubSeq(str, 1, Len(str) - 1))
    ELSE str

\* str.strip()
Strip(str) == RStrip(LStrip(str))

\* Python truthiness of an optional string
Truthy(str) == str # None /\ str # <<>>

\* Python `sub in str`
Contains(sub, str) ==
    \E i \in 0..(Len(str) - Len(sub)) : SubSeq(str, i + 1, i + Len(sub)) = sub

(***************************************************************************)
(* Inputs                                                                  *)
(***************************************************************************)
\* values of str(uuid.uuid4())[:8].upper()
SIDs == {"3F2A9C1B", "7D0E4A55"}

\* submission ids a caller may ask for: the generated ones, one never
\* generated, and the empty string
KeySIDs == SIDs \cup {"FFFFFFFF", ""}

\* what callers pass as (name, committee, social_media_links)
Submissions ==
    { <<<<" ", "A", "d", "a">>, <<"T", "e", "c", "h">>,
        <<"h", "t", "t", "p", ":", "/", "/", "x">>>>,
      <<<<"B", "o">>, <<"A", "r", "t", " ">>, <<>>>>,
      <<<<"B", "o">>, <<"A", "r", "t", " ">>, None>> }

\* committee and name filters of view_records
CommitteeFilters == { None, <<"t", "E">>, <<"_">>, <<"%", "r">> }

NameFilters == { None, <<"D">> }

NoLimit == -1

Limits == {NoLimit} \cup 0..MaxLimit

Confirmations == { <<"y", "e", "s">>, <<"Y", "E", "S">>, <<"n", "o">> }

\* (submission_id, record_id) as the menus pass them: one or the other,
\* and neither
DeleteKeys ==
    {<<k, 0>> : k \in KeySIDs} \cup {<<"", r>> : r \in 1..MaxId}

\* save_data: json.dump completes, or the write fails after open() has
\* truncated the file
SaveOutcomes == {"ok", "write_failed"}

\* the settings a database connection needs (DB_HOST, DB_USER, DB_PASSWORD,
\* DB_NAME)
RequiredKeys == {"host", "user", "password", "db"}

VARIABLES
    backend,    \* "json" or "mysql"
    config,     \* the required settings the environment defines
    serial,     \* TRUE when the clients of the database take turns
    auth,       \* per web session: the flags admin_authenticated and
                \* submissions_authenticated of st.session_state
    peer,       \* .data of a second SimpleRegistrationManager on the file
    now,        \* the clock (datetime.now(), CURRENT_TIMESTAMP); it stands
                \* still in Spec, whose records all carry one timestamp
    data,       \* SimpleRegistrationManager.data
    file,       \* content of registrations.json
    table,      \* rows of the submissions table
    autoInc,    \* next AUTO_INCREMENT value of submissions.id
    openConns,  \* number of open database connections
    pc,         \* per session: position in a multi-statement operation
    loc,        \* per session: locals of the operation in progress
    ev          \* the call or step just made and what it returned

vars == <<backend, config, serial, auth, peer, now, data, file, table, autoInc,
          openConns, pc, loc, ev>>

jsonVars == <<data, file>>
dbVars == <<table, autoInc, openConns, pc, loc>>

NoEv == [s |-> 0, op |-> "none", done |-> TRUE, ok |-> FALSE, raised |-> FALSE,
         dbfail |-> FALSE, sid |-> "", rid |-> 0, name |-> <<>>,
         committee |-> <<>>, links |-> None, limit |-> NoLimit,
         confirm |-> <<>>, rows |-> <<>>, count |-> 0, removed |-> 0,
         attempt |-> FALSE, cfgerr |-> FALSE, stats |-> <<>>,
         password |-> <<>>, header |-> <<>>, csv |-> <<>>]

\* the event of a step that calls pymysql.connect
ConnEv == [NoEv EXCEPT !.attempt = TRUE]

NoLoc == [sid |-> "", rid |-> 0, before |-> 0, rowcount |-> 0]

(***************************************************************************)
(* simple_crud.py: SimpleRegistrationManager                               *)
(***************************************************************************)
\* save_data: the file after json.dump, or after a failed write
save_data(d, outcome) ==
    IF outcome = "ok" THEN [valid |-> TRUE, recs |-> d]
    ELSE [valid |-> FALSE, recs |-> <<>>]

\* load_data: the list a new manager starts from
load_data(f) == IF f.valid THEN f.recs ELSE <<>>

\* the record add_record builds
NewJsonRecord(d, uuid, name, committee, links) ==
    [id |-> Len(d) + 1,
     sid |-> uuid,
     name |-> Strip(name),
     committee |-> Strip(committee),
     links |-> IF Truthy(links) THEN Strip(links) ELSE None,
     date |-> now]

SimpleAdd(s, name, committee, links, uuid, outcome) ==
    /\ backend = "json"
    /\ Len(data) < MaxRecs
    /\ LET rec == NewJsonRecord(data, uuid, name, committee, links)
       IN /\ data' = Append(data, rec)
          /\ file' = save_data(data', outcome)
          /\ ev' = [NoEv EXCEPT !.s = s, !.op = "add", !.ok = (outcome = "ok"),
                                !.sid = uuid, !.name = name,
                                !.committee = committee, !.links = links]
    /\ UNCHANGED <<backend, config, serial, auth, peer, now, dbVars>>

\* FindIndex with a loop that leaves its last index behind when nothing matches
FindIndexLastOnMiss(d, sid, rid) ==
    LET hits == IF sid # "" THEN {i \in DOMAIN d : d[i].sid = sid}
                ELSE IF rid # 0 THEN {i \in DOMAIN d : d[i].id = rid}
                ELSE {}
    IN IF hits = {} THEN Len(d) ELSE CHOOSE i \in hits : \A j \in hits : i <= j

\* index of the first record delete_record's loop stops at, 0 when none
FindIndex(d, sid, rid) ==
    LET hits == IF sid # "" THEN {i \in DOMAIN d : d[i].sid = sid}
                ELSE IF rid # 0 THEN {i \in DOMAIN d : d[i].id = rid}
                ELSE {}
    IN IF hits = {} THEN 0 ELSE CHOOSE i \in hits : \A j \in hits : i <= j

\* the confirmation test left out: every answer deletes
ConfirmedAlways(confirmation) == TRUE

\* input(...).lower() == 'yes'
Confirmed(confirmation) == Lower(confirmation) = <<"y", "e", "s">>

\* a pop that renumbers the records behind the one removed
PopRenumbered(d, i) ==
    [j \in 1..(Len(d) - 1) |->
        IF j < i THEN d[j] ELSE [d[j + 1] EXCEPT !.id = j]]

\* list.pop(i)
Pop(d, i) == SubSeq(d, 1, i - 1) \o SubSeq(d, i + 1, Len(d))

SimpleDelete(s, sid, rid, confirmation, outcome) ==
    /\ backend = "json"
    /\ LET i == FindIndex(data, sid, rid)
           e == [NoEv EXCEPT !.s = s, !.op = "delete", !.sid = sid, !.rid = rid,
                             !.confirm = confirmation]
       IN IF i = 0
          THEN /\ ev' = e
               /\ UNCHANGED jsonVars
          ELSE IF ~Confirmed(confirmation)
          THEN /\ ev' = e
               /\ UNCHANGED jsonVars
          ELSE /\ data' = Pop(data, i)
               /\ file' = save_data(data', outcome)
               /\ ev' = [e EXCEPT !.ok = (outcome = "ok"), !.removed = 1]
    /\ UNCHANGED <<backend, config, serial, auth, peer, now, dbVars>>

\* a second SimpleRegistrationManager on the same file
PeerManagers == {2}

\* add_record of the second manager: its own list, the shared file
PeerAdd(s, name, committee, links, uuid, outcome) ==
    /\ backend = "json"
    /\ Len(peer) < MaxRecs
    /\ LET rec == NewJsonRecord(peer, uuid, name, committee, links)
       IN /\ peer' = Append(peer, rec)
          /\ file' = save_data(peer', outcome)
          /\ ev' = [NoEv EXCEPT !.s = s, !.op = "add", !.ok = (outcome = "ok"),
                                !.sid = uuid, !.name = name,
                                !.committee = committee, !.links = links]
    /\ UNCHANGED <<backend, config, serial, auth, now, data, dbVars>>

\* delete_record of the second manager
PeerDelete(s, sid, rid, confirmation, outcome) ==
    /\ backend = "json"
    /\ LET i == FindIndex(peer, sid, rid)
           e == [NoEv EXCEPT !.s = s, !.op = "delete", !.sid = sid, !.rid = rid,
                             !.confirm = confirmation]
       IN IF i = 0
          THEN /\ ev' = e
               /\ UNCHANGED <<peer, file>>
          ELSE IF ~Confirmed(confirmation)
          THEN /\ ev' = e
               /\ UNCHANGED <<peer, file>>
          ELSE /\ peer' = Pop(peer, i)
               /\ file' = save_data(peer', outcome)
               /\ ev' = [e EXCEPT !.ok = (outcome = "ok"), !.removed = 1]
    /\ UNCHANGED <<backend, config, serial, auth, now, data, dbVars>>

RECURSIVE SortByDateDesc(_)
\* list.sort(key=submission_date, reverse=True): stable, newest first
SortByDateDesc(d) ==
    IF d = <<>> THEN <<>>
    ELSE LET rest == SortByDateDesc(SubSeq(d, 1, Len(d) - 1))
             r == d[Len(d)]
             k == Cardinality({i \in DOMAIN rest : rest[i].date >= r.date})
         IN SubSeq(rest, 1, k) \o <<r>> \o SubSeq(rest, k + 1, Len(rest))

\* the comprehension [r for r in d if P(r)]
RECURSIVE SelectSeqBy(_, _, _)
SelectSeqBy(d, f, field) ==
    IF d = <<>> THEN <<>>
    ELSE LET r == Head(d)
             txt == IF field = "committee" THEN r.committee ELSE r.name
             keep == Contains(Lower(f), Lower(txt))
         IN (IF keep THEN <<r>> ELSE <<>>) \o SelectSeqBy(Tail(d), f, field)

\* filtered_data[:limit] when limit is truthy
ApplyLimit(d, limit) ==
    IF limit # NoLimit /\ limit # 0
    THEN SubSeq(d, 1, IF limit < Len(d) THEN limit ELSE Len(d))
    ELSE d

\* SimpleRegistrationManager.view_records
SimpleViewRecords(d, committee, search_name, limit) ==
    LET byCommittee == IF Truthy(committee)
                       THEN SelectSeqBy(d, committee, "committee") ELSE d
        byName == IF Truthy(search_name)
                  THEN SelectSeqBy(byCommittee, search_name, "name")
                  ELSE byCommittee
    IN ApplyLimit(SortByDateDesc(byName), limit)

SimpleView(s, committee, search_name, limit) ==
    /\ backend = "json"
    /\ ev' = [NoEv EXCEPT !.s = s, !.op = "view", !.ok = TRUE,
                          !.committee = committee, !.name = search_name,
                          !.limit = limit,
                          !.rows = SimpleViewRecords(data, committee,
                                                     search_name, limit)]
    /\ UNCHANGED <<backend, config, serial, auth, peer, now, jsonVars, dbVars>>

\* SimpleRegistrationManager.get_record_by_id: the first match, or None
SimpleGetRecordById(d, sid) ==
    LET hits == {i \in DOMAIN d : d[i].sid = sid}
    IN IF hits = {} THEN <<>>
       ELSE <<d[CHOOSE i \in hits : \A j \in hits : i <= j]>>

SimpleGet(s, sid) ==
    /\ backend = "json"
    /\ ev' = [NoEv EXCEPT !.s = s, !.op = "get", !.ok = TRUE, !.sid = sid,
                          !.rows = SimpleGetRecordById(data, sid)]
    /\ UNCHANGED <<backend, config, serial, auth, peer, now, jsonVars, dbVars>>

(***************************************************************************)
(* The submissions table and its connections                               *)
(***************************************************************************)
\* pymysql.connect succeeds, pymysql.connect raises, cursor.execute raises
DbOutcomes == {"ok", "connect_failed", "statement_failed"}

\* SELECT * FROM submissions WHERE submission_id = %s / WHERE id = %s
RowsWhere(tbl, sid, rid) ==
    IF sid # "" THEN {r \in tbl : r.sid = sid}
    ELSE {r \in tbl : r.id = rid}

\* the INSERT: AUTO_INCREMENT id, DEFAULT CURRENT_TIMESTAMP
NewRow(uuid, name, committee, links) ==
    [id |-> autoInc, sid |-> uuid, name |-> name, committee |-> committee,
     links |-> links, date |-> now]

\* submission_id VARCHAR(50) UNIQUE rejects the INSERT
DuplicateKey(tbl, uuid) == \E r \in tbl : r.sid = uuid

\* DeleteWhere with the WHERE clause lost
DeleteWhereNoClause(tbl, sid, rid) == {}

\* DELETE FROM submissions WHERE ...: the rows that stay
DeleteWhere(tbl, sid, rid) == tbl \ RowsWhere(tbl, sid, rid)

\* DeleteAll that spares one row
DeleteAllButOne(tbl) == IF tbl = {} THEN {} ELSE {CHOOSE r \in tbl : TRUE}

\* DELETE FROM submissions: the rows that stay
DeleteAll(tbl) == {}

\* get_connection() and the first statement of an operation of session s;
\* a connection that was opened stays open
Connect(outcome) ==
    /\ openConns < MaxConns
    /\ openConns' = IF outcome = "connect_failed" THEN openConns
                    ELSE openConns + 1

\* conn.close() at the end of the step that opened the connection
ConnectAndClose(outcome) ==
    /\ openConns < MaxConns
    /\ openConns' = IF outcome = "statement_failed" THEN openConns + 1
                    ELSE openConns

\* the positions of a client that is not inside an operation: at its menu
\* or page, not yet started, or at the end of its run
AtRest == {"idle", "startup", "stopped", "exited"}

\* one operator at a time: a client starts or continues an operation while
\* no other client is inside one; clients that do not take turns are free
Turn(s) == serial => \A t \in Sessions \ {s} : pc[t] \in AtRest

(***************************************************************************)
(* crud_operations.py: CommitteeRegistrationDB                             *)
(***************************************************************************)
DbAdd(s, name, committee, links, uuid, outcome) ==
    /\ backend = "mysql"
    /\ Turn(s)
    /\ pc[s] = "idle"
    /\ autoInc <= MaxId
    /\ openConns < MaxConns
    /\ LET e == [ConnEv EXCEPT !.s = s, !.op = "add", !.sid = uuid,
                             !.name = name, !.committee = committee,
                             !.links = links]
       IN IF outcome # "ok"
          THEN /\ Connect(outcome)
               /\ ev' = [e EXCEPT !.dbfail = TRUE]
               /\ UNCHANGED <<table, autoInc>>
          ELSE IF DuplicateKey(table, uuid)
          THEN /\ openConns' = openConns + 1
               /\ ev' = [e EXCEPT !.dbfail = TRUE]
               /\ UNCHANGED <<table, autoInc>>
          ELSE /\ table' = table \cup {NewRow(uuid, name, committee, links)}
               /\ autoInc' = autoInc + 1
               /\ ev' = [e EXCEPT !.ok = TRUE]
               /\ UNCHANGED openConns
    /\ UNCHANGED <<backend, config, serial, auth, peer, now, jsonVars, pc, loc>>

\* delete_record up to the confirmation prompt
DbDeleteSelect(s, sid, rid, outcome) ==
    /\ backend = "mysql"
    /\ Turn(s)
    /\ pc[s] = "idle"
    /\ Connect(outcome)
    /\ LET e == [ConnEv EXCEPT !.s = s, !.op = "delete", !.sid = sid,
                             !.rid = rid]
       IN IF outcome # "ok"
          THEN /\ sid # "" \/ rid # 0 \/ outcome = "connect_failed"
               /\ ev' = [e EXCEPT !.dbfail = TRUE]
               /\ UNCHANGED <<pc, loc>>
          ELSE IF (sid = "" /\ rid = 0) \/ RowsWhere(table, sid, rid) = {}
          THEN /\ ev' = e
               /\ UNCHANGED <<pc, loc>>
          ELSE /\ ev' = [e EXCEPT !.done = FALSE]
               /\ pc' = [pc EXCEPT ![s] = "confirm"]
               /\ loc' = [loc EXCEPT ![s] = [NoLoc EXCEPT !.sid = sid,
                                                          !.rid = rid]]
    /\ UNCHANGED <<backend, config, serial, auth, peer, now, jsonVars, table, autoInc>>

\* the result taken for granted after the record was found
DeletedAlways(rows_affected) == TRUE

\* `if rows_affected > 0: return True`, `else: return False`
Deleted(rows_affected) == rows_affected > 0

\* delete_record from the confirmation prompt on
DbDeleteConfirm(s, confirmation, outcome) ==
    /\ backend = "mysql"
    /\ Turn(s)
    /\ pc[s] = "confirm"
    /\ outcome \in {"ok", "statement_failed"}
    /\ LET e == [NoEv EXCEPT !.s = s, !.op = "delete", !.sid = loc[s].sid,
                             !.rid = loc[s].rid, !.confirm = confirmation]
           hit == RowsWhere(table, loc[s].sid, loc[s].rid)
       IN IF ~Confirmed(confirmation)
          THEN /\ outcome = "ok"
               /\ ev' = e
               /\ UNCHANGED <<table, openConns>>
          ELSE IF outcome # "ok"
          THEN /\ ev' = [e EXCEPT !.dbfail = TRUE]
               /\ UNCHANGED <<table, openConns>>
          ELSE /\ table' = DeleteWhere(table, loc[s].sid, loc[s].rid)
               /\ openConns' = openConns - 1
               /\ ev' = [e EXCEPT !.ok = Deleted(Cardinality(hit)),
                                  !.removed = Cardinality(hit)]
    /\ pc' = [pc EXCEPT ![s] = "idle"]
    /\ loc' = [loc EXCEPT ![s] = NoLoc]
    /\ UNCHANGED <<backend, config, serial, auth, peer, now, jsonVars, autoInc>>

\* case-insensitive comparison of the default collation
SameChar(a, b) == LowerChar(a) = LowerChar(b)

\* text LIKE pattern: % matches any run of characters, _ any one character
RECURSIVE Like(_, _)
Like(txt, pat) ==
    IF pat = <<>> THEN txt = <<>>
    ELSE IF Head(pat) = "%"
    THEN Like(txt, Tail(pat)) \/ (txt # <<>> /\ Like(Tail(txt), pat))
    ELSE IF Head(pat) = "_"
    THEN txt # <<>> /\ Like(Tail(txt), Tail(pat))
    ELSE txt # <<>> /\ SameChar(Head(txt), Head(pat))
                    /\ Like(Tail(txt), Tail(pat))

\* the parameter f"%{value}%"
LikeParam(value) == <<"%">> \o value \o <<"%">>

\* the WHERE clause view_records builds
ViewWhere(tbl, committee, search_name) ==
    {r \in tbl :
        /\ Truthy(committee) => Like(r.committee, LikeParam(committee))
        /\ Truthy(search_name) => Like(r.name, LikeParam(search_name))}

\* a listing without its ORDER BY clause: the rows in any order
OrderedAnyhow(rows) ==
    {q \in [1..Cardinality(rows) -> rows] :
        \A i, j \in DOMAIN q : i < j => q[i] # q[j]}

\* ORDER BY submission_date DESC: rows of equal date come in any order
OrderedByDateDesc(rows) ==
    {q \in [1..Cardinality(rows) -> rows] :
        /\ \A i, j \in DOMAIN q : i < j => q[i] # q[j] /\ q[i].date >= q[j].date}

DbView(s, committee, search_name, limit, outcome) ==
    /\ backend = "mysql"
    /\ Turn(s)
    /\ pc[s] = "idle"
    /\ ConnectAndClose(outcome)
    /\ LET e == [ConnEv EXCEPT !.s = s, !.op = "view", !.committee = committee,
                             !.name = search_name, !.limit = limit]
       IN IF outcome # "ok"
          THEN ev' = [e EXCEPT !.dbfail = TRUE]
          ELSE \E q \in OrderedByDateDesc(ViewWhere(table, committee,
                                                    search_name)) :
                  ev' = [e EXCEPT !.ok = TRUE, !.rows = ApplyLimit(q, limit)]
    /\ UNCHANGED <<backend, config, serial, auth, peer, now, jsonVars, table, autoInc, pc, loc>>

\* CommitteeRegistrationDB.get_record_by_id: fetchone(), None as <<>>
DbGetRecordById(tbl, sid) ==
    LET hit == {r \in tbl : r.sid = sid}
    IN IF hit = {} THEN <<>> ELSE <<CHOOSE r \in hit : TRUE>>

DbGet(s, sid, outcome) ==
    /\ backend = "mysql"
    /\ Turn(s)
    /\ pc[s] = "idle"
    /\ ConnectAndClose(outcome)
    /\ LET e == [ConnEv EXCEPT !.s = s, !.op = "get", !.sid = sid]
       IN IF outcome # "ok"
          THEN ev' = [e EXCEPT !.dbfail = TRUE]
          ELSE ev' = [e EXCEPT !.ok = TRUE, !.rows = DbGetRecordById(table, sid)]
    /\ UNCHANGED <<backend, config, serial, auth, peer, now, jsonVars, table, autoInc, pc, loc>>

(***************************************************************************)
(* app.py and export_images.py                                             *)
(***************************************************************************)
\* the flags of both pages set by one login
AnyAccess(s) == auth[s].admin \/ auth[s].submissions

\* `if not st.session_state.admin_authenticated: ... return` heads the
\* admin panel
AdminAccess(s) == auth[s].admin

\* `if not st.session_state.submissions_authenticated: ... return` heads the
\* View Submissions page
SubmissionsAccess(s) == auth[s].submissions

\* get_photo_data: no handler, a failure reaches the caller
GetPhotoData(s, sid, outcome) ==
    /\ backend = "mysql"
    /\ Turn(s)
    /\ pc[s] = "idle"
    /\ SubmissionsAccess(s)
    /\ ConnectAndClose(outcome)
    /\ LET e == [ConnEv EXCEPT !.s = s, !.op = "photo", !.sid = sid]
       IN IF outcome # "ok"
          THEN ev' = [e EXCEPT !.dbfail = TRUE, !.raised = TRUE]
          ELSE ev' = [e EXCEPT !.ok = TRUE, !.rows = DbGetRecordById(table, sid)]
    /\ UNCHANGED <<backend, config, serial, auth, peer, now, jsonVars, table, autoInc, pc, loc>>

\* export_all_images: no handler around the connection or the query
ExportAllImages(s, outcome) ==
    /\ backend = "mysql"
    /\ Turn(s)
    /\ pc[s] = "idle"
    /\ ConnectAndClose(outcome)
    /\ LET e == [ConnEv EXCEPT !.s = s, !.op = "export_images"]
       IN IF outcome # "ok"
          THEN ev' = [e EXCEPT !.dbfail = TRUE, !.raised = TRUE]
          ELSE ev' = [e EXCEPT !.ok = TRUE, !.count = Cardinality(table)]
    /\ UNCHANGED <<backend, config, serial, auth, peer, now, jsonVars, table, autoInc, pc, loc>>

\* Clear All Data: connect and count
ClearCount(s, outcome) ==
    /\ backend = "mysql"
    /\ Turn(s)
    /\ pc[s] = "idle"
    /\ AdminAccess(s)
    /\ Connect(outcome)
    /\ LET e == [ConnEv EXCEPT !.s = s, !.op = "clear"]
       IN IF outcome # "ok"
          THEN /\ ev' = [e EXCEPT !.dbfail = TRUE]
               /\ UNCHANGED <<pc, loc>>
          ELSE /\ ev' = [e EXCEPT !.done = FALSE]
               /\ pc' = [pc EXCEPT ![s] = "clear_delete"]
               /\ loc' = [loc EXCEPT ![s] =
                            [NoLoc EXCEPT !.before = Cardinality(table)]]
    /\ UNCHANGED <<backend, config, serial, auth, peer, now, jsonVars, table, autoInc>>

\* Clear All Data: delete and commit
ClearDelete(s, outcome) ==
    /\ backend = "mysql"
    /\ Turn(s)
    /\ pc[s] = "clear_delete"
    /\ outcome \in {"ok", "statement_failed"}
    /\ LET e == [NoEv EXCEPT !.s = s, !.op = "clear"]
       IN IF outcome # "ok"
          THEN /\ ev' = [e EXCEPT !.dbfail = TRUE]
               /\ pc' = [pc EXCEPT ![s] = "idle"]
               /\ loc' = [loc EXCEPT ![s] = NoLoc]
               /\ UNCHANGED table
          ELSE /\ table' = DeleteAll(table)
               /\ ev' = [e EXCEPT !.done = FALSE,
                                  !.removed = Cardinality(table \ table')]
               /\ pc' = [pc EXCEPT ![s] = "clear_verify"]
               /\ loc' = [loc EXCEPT ![s].rowcount = Cardinality(table \ table')]
    /\ UNCHANGED <<backend, config, serial, auth, peer, now, jsonVars, autoInc, openConns>>

\* Clear All Data: count again, close, report
ClearVerify(s, outcome) ==
    /\ backend = "mysql"
    /\ Turn(s)
    /\ pc[s] = "clear_verify"
    /\ outcome \in {"ok", "statement_failed"}
    /\ LET e == [NoEv EXCEPT !.s = s, !.op = "clear",
                             !.removed = loc[s].rowcount]
           after_count == Cardinality(table)
       IN IF outcome # "ok"
          THEN /\ ev' = [e EXCEPT !.dbfail = TRUE]
               /\ UNCHANGED openConns
          ELSE /\ openConns' = openConns - 1
               /\ ev' = [e EXCEPT !.ok = (after_count = 0),
                                  !.count = IF after_count = 0
                                            THEN loc[s].before
                                            ELSE after_count]
    /\ pc' = [pc EXCEPT ![s] = "idle"]
    /\ loc' = [loc EXCEPT ![s] = NoLoc]
    /\ UNCHANGED <<backend, config, serial, auth, peer, now, jsonVars, table, autoInc>>

(***************************************************************************)
(* Statistics and the clock                                                *)
(***************************************************************************)
\* INTERVAL 7 DAY, timedelta(days=7)
RecentDays == 7

\* the clock runs: the unit is a day, a step is the length of the window of
\* recent records
Tick ==
    /\ now + RecentDays <= MaxNow
    /\ now' = now + RecentDays
    /\ ev' = [NoEv EXCEPT !.op = "tick"]
    /\ UNCHANGED <<backend, config, serial, auth, peer, jsonVars, dbVars>>

\* SimpleRegistrationManager.get_statistics: `datetime` is the class
\* datetime.datetime, so datetime.timedelta(days=7) raises AttributeError
\* inside the try block, whatever the records are; the handler returns {}
SimpleStatistics(d) == <<>>

SimpleGetStatistics(s) ==
    /\ backend = "json"
    /\ LET stats == SimpleStatistics(data)
       IN ev' = [NoEv EXCEPT !.s = s, !.op = "stats", !.ok = (stats # <<>>),
                             !.stats = stats]
    /\ UNCHANGED <<backend, config, serial, auth, peer, now, jsonVars, dbVars>>

\* equality of two strings under the table's case-insensitive collation
SameText(a, b) == Lower(a) = Lower(b)

\* GROUP BY committee ORDER BY count DESC: one row per group of equal
\* committees, showing the committee of one of its rows; groups of equal
\* count come in any order
CommitteeStats(tbl) ==
    LET group(r) == {q \in tbl : SameText(q.committee, r.committee)}
        groups == {group(r) : r \in tbl}
        entries == {[committee |-> r.committee,
                     count |-> Cardinality(group(r))] : r \in tbl}
    IN {q \in [1..Cardinality(groups) -> entries] :
           \A i, j \in DOMAIN q :
              i < j => /\ ~SameText(q[i].committee, q[j].committee)
                       /\ q[i].count >= q[j].count}

\* CommitteeRegistrationDB.get_statistics
DbGetStatistics(s, outcome) ==
    /\ backend = "mysql"
    /\ Turn(s)
    /\ pc[s] = "idle"
    /\ ConnectAndClose(outcome)
    /\ LET e == [ConnEv EXCEPT !.s = s, !.op = "stats"]
       IN IF outcome # "ok"
          THEN ev' = [e EXCEPT !.dbfail = TRUE]
          ELSE \E cs \in CommitteeStats(table) :
                  ev' = [e EXCEPT
                           !.ok = TRUE,
                           !.stats =
                             <<[total_records |-> Cardinality(table),
                                committee_stats |-> cs,
                                recent_records |-> Cardinality(
                                   {r \in table : r.date >= now - RecentDays}),
                                with_social_media |-> Cardinality(
                                   {r \in table : /\ r.links # None
                                                  /\ r.links # <<>>})]>>]
    /\ UNCHANGED <<backend, config, serial, auth, peer, now, jsonVars, table, autoInc, pc, loc>>

\* the Statistics tab of show_admin_panel: the engine of
\* get_sqlalchemy_engine is disposed of on every path; a failed query and
\* an empty table both show no figures
AdminStatistics(s, outcome) ==
    /\ backend = "mysql"
    /\ Turn(s)
    /\ pc[s] = "idle"
    /\ AdminAccess(s)
    /\ LET e == [ConnEv EXCEPT !.s = s, !.op = "admin_stats"]
       IN IF outcome # "ok"
          THEN ev' = [e EXCEPT !.dbfail = TRUE]
          ELSE IF table = {}
          THEN ev' = [e EXCEPT !.ok = TRUE]
          ELSE ev' = [e EXCEPT
                        !.ok = TRUE,
                        !.stats =
                          <<[total_records |-> Cardinality(table),
                             with_social_media |-> Cardinality(
                                {r \in table : r.links # None})]>>]
    /\ UNCHANGED <<backend, config, serial, auth, peer, now, jsonVars, dbVars>>

(***************************************************************************)
(* The add paths of the front ends                                         *)
(***************************************************************************)
\* str.startswith(prefix)
StartsWith(str, prefix) ==
    /\ Len(str) >= Len(prefix)
    /\ SubSeq(str, 1, Len(prefix)) = prefix

RECURSIVE Split(_)
\* str.split(',')
Split(str) ==
    IF \A i \in DOMAIN str : str[i] # "," THEN <<str>>
    ELSE LET k == CHOOSE i \in DOMAIN str :
                     str[i] = "," /\ \A j \in 1..(i - 1) : str[j] # ","
         IN <<SubSeq(str, 1, k - 1)>> \o Split(SubSeq(str, k + 1, Len(str)))

NonEmpty(str) == str # <<>>

\* parse_social_media_links
parse_social_media_links(links_string) ==
    IF ~Truthy(links_string) THEN <<>>
    ELSE LET parts == Split(links_string)
         IN SelectSeq([i \in DOMAIN parts |-> Strip(parts[i])], NonEmpty)

\* link.startswith('http://') or link.startswith('https://')
IsUrl(link) ==
    \/ StartsWith(link, <<"h", "t", "t", "p", ":", "/", "/">>)
    \/ StartsWith(link, <<"h", "t", "t", "p", "s", ":", "/", "/">>)

\* the shortest committee name the form accepts
MinCommitteeLen == 2

\* what a user types as name, committee and social media links
FormInputs ==
    { <<<<" ">>, <<"T", "e", "c", "h">>, <<>>>>,
      <<<<"B", "o">>, <<" ">>, <<"h", "t", "t", "p", ":", "/", "/", "x">>>>,
      <<<<"A", "d", "a">>, <<"T", "e", "c", "h">>, <<"x", ".", "c", "o">>>>,
      <<<<"B", "o">>, <<"A", "r", "t", " ">>,
        <<"h", "t", "t", "p", ":", "/", "/", "x", ",", " ",
          "h", "t", "t", "p", "s", ":", "/", "/", "y">>>>,
      <<<<"B", "o">>, <<"A">>, <<" ">>>> }

\* a front end turns the input down before it reaches the store
Rejected(s, name, committee, links) ==
    /\ ev' = [NoEv EXCEPT !.s = s, !.op = "add_rejected", !.name = name,
                          !.committee = committee, !.links = links]
    /\ UNCHANGED <<backend, config, serial, auth, peer, now, jsonVars, dbVars>>

\* CLIInterface.add_registration
CliAddRegistration(s, name, committee, social_media, uuid, outcome) ==
    IF Strip(name) = <<>> \/ Strip(committee) = <<>>
    THEN /\ backend = "mysql"
         /\ Turn(s)
         /\ pc[s] = "idle"
         /\ Rejected(s, name, committee, social_media)
    ELSE DbAdd(s, Strip(name), Strip(committee),
               IF Strip(social_media) # <<>> THEN Strip(social_media)
               ELSE None,
               uuid, outcome)

\* show_submission_form on "Submit Registration", with save_submission
SubmitForm(s, name, committee, links, uploaded_file, uuid, outcome) ==
    IF \/ name = <<>> \/ committee = <<>> \/ ~uploaded_file
       \/ Len(Strip(committee)) < MinCommitteeLen
       \/ \E i \in DOMAIN parse_social_media_links(links) :
             ~IsUrl(parse_social_media_links(links)[i])
    THEN /\ backend = "mysql"
         /\ Turn(s)
         /\ pc[s] = "idle"
         /\ Rejected(s, name, committee, links)
    ELSE DbAdd(s, Strip(name), Strip(committee),
               IF links # <<>> THEN Strip(links)
               ELSE None,
               uuid, outcome)

\* SimpleCLI.add_registration
SimpleAddRegistration(s, name, committee, social_media, uuid, outcome) ==
    IF Strip(name) = <<>> \/ Strip(committee) = <<>>
    THEN /\ backend = "json"
         /\ Rejected(s, name, committee, social_media)
    ELSE SimpleAdd(s, Strip(name), Strip(committee), Strip(social_media),
                   uuid, outcome)

(***************************************************************************)
(* Start of the front ends                                                 *)
(***************************************************************************)
\* the environments a front end starts in: every required setting defined,
\* or one of them missing
Configs == {RequiredKeys} \cup {RequiredKeys \ {k} : k \in RequiredKeys}

\* all([host, user, password, db])
ConfigComplete == RequiredKeys \subseteq config

\* the result of init_database left unread, as menu option 7 leaves it
AfterStartupIgnored(ok, stop) == "idle"

\* `if not init_database():` at startup: on to the menu or the page, or the
\* end of the run
AfterStartup(ok, stop) == IF ok THEN "idle" ELSE stop

\* the table dropped and created anew
CreateTableAnew(tbl) == {}

\* CREATE TABLE IF NOT EXISTS submissions (...) and the commit: the rows of
\* the table afterwards
CreateTableIfNotExists(tbl) == tbl

\* main() of crud_operations.py as far as the menu: CLIInterface(), whose
\* constructor raises ValueError on an incomplete configuration, then run()
\* with init_database(); the process that returns from run() is gone, with
\* its connection
CliStart(s, outcome) ==
    /\ backend = "mysql"
    /\ Turn(s)
    /\ pc[s] = "startup"
    /\ IF ~ConfigComplete
       THEN /\ ev' = [NoEv EXCEPT !.s = s, !.op = "init", !.cfgerr = TRUE]
            /\ pc' = [pc EXCEPT ![s] = "exited"]
            /\ UNCHANGED table
       ELSE /\ ev' = [ConnEv EXCEPT !.s = s, !.op = "init",
                                    !.ok = (outcome = "ok"),
                                    !.dbfail = (outcome # "ok")]
            /\ pc' = [pc EXCEPT ![s] = AfterStartup(outcome = "ok", "exited")]
            /\ table' = IF outcome = "ok" THEN CreateTableIfNotExists(table)
                        ELSE table
    /\ UNCHANGED <<backend, config, serial, auth, peer, now, jsonVars, autoInc, openConns, loc>>

\* one run of the script app.py as far as the page: main() with
\* init_database(); get_db_connection stops the run on an incomplete
\* configuration before it connects
WebStart(s, outcome) ==
    /\ backend = "mysql"
    /\ Turn(s)
    /\ pc[s] = "startup"
    /\ IF ~ConfigComplete
       THEN /\ ev' = [NoEv EXCEPT !.s = s, !.op = "init", !.cfgerr = TRUE]
            /\ pc' = [pc EXCEPT ![s] = "stopped"]
            /\ UNCHANGED <<openConns, table>>
       ELSE /\ ConnectAndClose(outcome)
            /\ ev' = [ConnEv EXCEPT !.s = s, !.op = "init",
                                    !.ok = (outcome = "ok"),
                                    !.dbfail = (outcome # "ok")]
            /\ pc' = [pc EXCEPT ![s] = AfterStartup(outcome = "ok", "stopped")]
            /\ table' = IF outcome = "ok" THEN CreateTableIfNotExists(table)
                        ELSE table
    /\ UNCHANGED <<backend, config, serial, auth, peer, now, jsonVars, autoInc, loc>>

\* the user acts on the page: the script runs again from the top
Rerun(s) ==
    /\ Turn(s)
    /\ pc[s] \in {"idle", "stopped"}
    /\ pc' = [pc EXCEPT ![s] = "startup"]
    /\ ev' = [NoEv EXCEPT !.s = s, !.op = "rerun"]
    /\ UNCHANGED <<backend, config, serial, auth, peer, now, jsonVars, table, autoInc, openConns,
                   loc>>

\* menu option 7 of CLIInterface.run: init_database() again, result unread
CliReinit(s, outcome) ==
    /\ backend = "mysql"
    /\ Turn(s)
    /\ pc[s] = "idle"
    /\ ConnectAndClose(outcome)
    /\ ev' = [ConnEv EXCEPT !.s = s, !.op = "reinit", !.ok = (outcome = "ok"),
                            !.dbfail = (outcome # "ok")]
    /\ table' = IF outcome = "ok" THEN CreateTableIfNotExists(table) ELSE table
    /\ UNCHANGED <<backend, config, serial, auth, peer, now, jsonVars, autoInc, pc, loc>>

(***************************************************************************)
(* CSV export                                                              *)
(***************************************************************************)
Digits == <<"0", "1", "2", "3", "4", "5", "6", "7", "8", "9">>

RECURSIVE Str(_)
\* str(n) of a natural number
Str(n) ==
    IF n < Len(Digits) THEN <<Digits[n + 1]>>
    ELSE Str(n \div Len(Digits)) \o <<Digits[(n % Len(Digits)) + 1]>>

\* the characters of a submission_id
SidText(sid) ==
    CASE sid = "3F2A9C1B" -> <<"3", "F", "2", "A", "9", "C", "1", "B">>
      [] sid = "7D0E4A55" -> <<"7", "D", "0", "E", "4", "A", "5", "5">>
      [] OTHER -> <<>>

\* str(value) of an optional string: str(None) is 'None'
StrOf(value) == IF value = None THEN <<"N", "o", "n", "e">> ELSE value

RECURSIVE DoubleQuotes(_)
\* str.replace('"', '""')
DoubleQuotes(txt) ==
    IF txt = <<>> THEN <<>>
    ELSE (IF Head(txt) = "\"" THEN <<"\"", "\"">> ELSE <<Head(txt)>>)
         \o DoubleQuotes(Tail(txt))

\* export_to_csv's field: quoted, with its quotes doubled, when str(value)
\* holds a comma or a quote
CsvField(txt) ==
    IF \E i \in DOMAIN txt : txt[i] \in {",", "\""}
    THEN <<"\"">> \o DoubleQuotes(txt) \o <<"\"">>
    ELSE txt

RECURSIVE Join(_)
\* ','.join(row)
Join(row) ==
    IF row = <<>> THEN <<>>
    ELSE IF Len(row) = 1 THEN row[1]
    ELSE row[1] \o <<",">> \o Join(Tail(row))

\* the columns SimpleRegistrationManager.export_to_csv writes
SimpleCsvHeaders ==
    <<"id", "submission_id", "name", "committee", "social_media_links",
      "email", "phone", "submission_date">>

\* str(record.get(header, '')) for each header: email and phone are keys of
\* every record and hold None, no caller here passes them; the date is
\* written as its day number
SimpleCsvValues(r) ==
    <<Str(r.id), SidText(r.sid), StrOf(r.name), StrOf(r.committee),
      StrOf(r.links), StrOf(None), StrOf(None), Str(r.date)>>

\* one line of the export
SimpleCsvLine(r) ==
    LET values == SimpleCsvValues(r)
    IN Join([i \in DOMAIN values |-> CsvField(values[i])]) \o <<"\n">>

\* SimpleRegistrationManager.export_to_csv; .csv holds, record by record,
\* the text written after the header line
SimpleExportToCsv(s, outcome) ==
    /\ backend = "json"
    /\ LET e == [NoEv EXCEPT !.s = s, !.op = "export"]
       IN IF data = <<>> \/ outcome # "ok"
          THEN ev' = e
          ELSE ev' = [e EXCEPT !.ok = TRUE, !.header = SimpleCsvHeaders,
                               !.csv = [i \in DOMAIN data |-> SimpleCsvLine(data[i])],
                               !.count = Len(data)]
    /\ UNCHANGED <<backend, config, serial, auth, peer, now, jsonVars, dbVars>>

\* the columns view_records and get_all_submissions select
DbColumns ==
    <<"id", "submission_id", "name", "committee", "social_media_links",
      "photo_filename", "submission_date">>

\* CommitteeRegistrationDB.export_to_csv: the DataFrame of view_records()
\* written by to_csv(index=False); nothing is written when the listing is
\* empty or failed
DbExportToCsv(s, outcome) ==
    /\ backend = "mysql"
    /\ Turn(s)
    /\ pc[s] = "idle"
    /\ ConnectAndClose(outcome)
    /\ LET e == [ConnEv EXCEPT !.s = s, !.op = "db_export"]
       IN IF outcome # "ok"
          THEN ev' = [e EXCEPT !.dbfail = TRUE]
          ELSE IF table = {}
          THEN ev' = e
          ELSE ev' = [e EXCEPT !.ok = TRUE, !.header = DbColumns,
                               !.count = Cardinality(table)]
    /\ UNCHANGED <<backend, config, serial, auth, peer, now, jsonVars, table,
                   autoInc, pc, loc>>

\* DataFrame.drop(columns=['id'])
DropId(columns) == SelectSeq(columns, LAMBDA c : c # "id")

\* the Export Data tab of show_admin_panel
AdminExport(s, outcome) ==
    /\ backend = "mysql"
    /\ Turn(s)
    /\ pc[s] = "idle"
    /\ AdminAccess(s)
    /\ LET e == [ConnEv EXCEPT !.s = s, !.op = "admin_export"]
       IN IF outcome # "ok"
          THEN ev' = [e EXCEPT !.dbfail = TRUE]
          ELSE IF table = {}
          THEN ev' = e
          ELSE ev' = [e EXCEPT !.ok = TRUE, !.header = DropId(DbColumns),
                               !.count = Cardinality(table)]
    /\ UNCHANGED <<backend, config, serial, auth, peer, now, jsonVars, dbVars>>

(***************************************************************************)
(* app.py: the passwords of the admin panel and of View Submissions        *)
(***************************************************************************)
\* st.secrets.get("ADMIN_PASSWORD", os.getenv('ADMIN_PASSWORD', 'admin123'))
\* where neither the secrets nor the environment define it
admin_password == <<"a", "d", "m", "i", "n", "1", "2", "3">>

\* what is typed into the password field: the password, the password in
\* another case, nothing
Passwords == { admin_password,
               <<"A", "D", "M", "I", "N", "1", "2", "3">>,
               <<>> }

\* the Login button of show_admin_panel
AdminLogin(s, password) ==
    /\ backend = "mysql"
    /\ Turn(s)
    /\ pc[s] = "idle"
    /\ ~auth[s].admin
    /\ auth' = IF password = admin_password
               THEN [auth EXCEPT ![s].admin = TRUE]
               ELSE auth
    /\ ev' = [NoEv EXCEPT !.s = s, !.op = "admin_login",
                          !.password = password,
                          !.ok = (password = admin_password)]
    /\ UNCHANGED <<backend, config, serial, peer, now, jsonVars, dbVars>>

\* the Logout button of show_admin_panel
AdminLogout(s) ==
    /\ backend = "mysql"
    /\ Turn(s)
    /\ pc[s] = "idle"
    /\ auth[s].admin
    /\ auth' = [auth EXCEPT ![s].admin = FALSE]
    /\ ev' = [NoEv EXCEPT !.s = s, !.op = "admin_logout", !.ok = TRUE]
    /\ UNCHANGED <<backend, config, serial, peer, now, jsonVars, dbVars>>

\* the Access Submissions button of show_submissions
SubmissionsLogin(s, password) ==
    /\ backend = "mysql"
    /\ Turn(s)
    /\ pc[s] = "idle"
    /\ ~auth[s].submissions
    /\ auth' = IF password = admin_password
               THEN [auth EXCEPT ![s].submissions = TRUE]
               ELSE auth
    /\ ev' = [NoEv EXCEPT !.s = s, !.op = "submissions_login",
                          !.password = password,
                          !.ok = (password = admin_password)]
    /\ UNCHANGED <<backend, config, serial, peer, now, jsonVars, dbVars>>

\* the Logout from Submissions button of show_submissions
SubmissionsLogout(s) ==
    /\ backend = "mysql"
    /\ Turn(s)
    /\ pc[s] = "idle"
    /\ auth[s].submissions
    /\ auth' = [auth EXCEPT ![s].submissions = FALSE]
    /\ ev' = [NoEv EXCEPT !.s = s, !.op = "submissions_logout", !.ok = TRUE]
    /\ UNCHANGED <<backend, config, serial, peer, now, jsonVars, dbVars>>

\* a web session whose operator has logged in on both pages
LoggedIn == [admin |-> TRUE, submissions |-> TRUE]

\* a new web session: the flags are created False
LoggedOut == [admin |-> FALSE, submissions |-> FALSE]

Init ==
    /\ backend \in {"json", "mysql"}
    /\ config = RequiredKeys
    /\ serial = TRUE
    /\ auth = [s \in WebSessions |-> LoggedIn]
    /\ peer = <<>>
    /\ now = 0
    /\ file = [valid |-> TRUE, recs |-> <<>>]
    /\ data = load_data(file)
    /\ table = {}
    /\ autoInc = 1
    /\ openConns = 0
    /\ pc = [s \in Sessions |-> "idle"]
    /\ loc = [s \in Sessions |-> NoLoc]
    /\ ev = NoEv

Next ==
    \/ \E s \in Managers, x \in Submissions, u \in SIDs, o \in SaveOutcomes :
          SimpleAdd(s, x[1], x[2], x[3], u, o)
    \/ \E s \in Managers, k \in DeleteKeys, c \in Confirmations,
          o \in SaveOutcomes : SimpleDelete(s, k[1], k[2], c, o)
    \/ \E s \in Managers, c \in CommitteeFilters, n \in NameFilters,
          l \in Limits : SimpleView(s, c, n, l)
    \/ \E s \in Managers, k \in KeySIDs : SimpleGet(s, k)
    \/ \E s \in CliSessions, x \in Submissions, u \in SIDs, o \in DbOutcomes :
          DbAdd(s, x[1], x[2], x[3], u, o)
    \/ \E s \in CliSessions, k \in DeleteKeys, o \in DbOutcomes :
          DbDeleteSelect(s, k[1], k[2], o)
    \/ \E s \in CliSessions, c \in Confirmations, o \in DbOutcomes :
          DbDeleteConfirm(s, c, o)
    \/ \E s \in CliSessions, c \in CommitteeFilters, n \in NameFilters,
          l \in Limits, o \in DbOutcomes : DbView(s, c, n, l, o)
    \/ \E s \in CliSessions, k \in KeySIDs, o \in DbOutcomes : DbGet(s, k, o)
    \/ \E s \in WebSessions, k \in KeySIDs, o \in DbOutcomes :
          GetPhotoData(s, k, o)
    \/ \E s \in ToolSessions, o \in DbOutcomes : ExportAllImages(s, o)
    \/ \E s \in WebSessions, o \in DbOutcomes : ClearCount(s, o)
    \/ \E s \in WebSessions, o \in DbOutcomes : ClearDelete(s, o)
    \/ \E s \in WebSessions, o \in DbOutcomes : ClearVerify(s, o)

Spec == Init /\ [][Next]_vars

(***************************************************************************)
(* Runs in which time passes between the calls, the file is written and    *)
(* the database answers                                                    *)
(***************************************************************************)
\* the committee filters of these runs
DatedFilters == { None, <<"t", "E">> }

\* what callers pass in these runs: a committee also arrives in lower case
DatedSubmissions == Submissions \cup { <<<<"B", "o">>, <<"t", "e", "c", "h">>, None>> }

DatedNext ==
    \/ Tick
    \/ \E s \in Managers, x \in DatedSubmissions, u \in SIDs :
          SimpleAdd(s, x[1], x[2], x[3], u, "ok")
    \/ \E s \in Managers, u \in SIDs :
          SimpleDelete(s, u, 0, <<"y", "e", "s">>, "ok")
    \/ \E s \in Managers, c \in DatedFilters, l \in Limits :
          SimpleView(s, c, None, l)
    \/ \E s \in Managers : SimpleGetStatistics(s)
    \/ \E s \in CliSessions, x \in DatedSubmissions, u \in SIDs :
          DbAdd(s, x[1], x[2], x[3], u, "ok")
    \/ \E s \in CliSessions, u \in SIDs : DbDeleteSelect(s, u, 0, "ok")
    \/ \E s \in CliSessions : DbDeleteConfirm(s, <<"y", "e", "s">>, "ok")
    \/ \E s \in CliSessions, c \in DatedFilters, l \in Limits :
          DbView(s, c, None, l, "ok")
    \/ \E s \in CliSessions : DbGetStatistics(s, "ok")
    \/ \E s \in WebSessions : AdminStatistics(s, "ok")
    \/ \E s \in Managers : SimpleExportToCsv(s, "ok")
    \/ \E s \in CliSessions : DbExportToCsv(s, "ok")

DatedSpec == Init /\ [][DatedNext]_vars

(***************************************************************************)
(* Runs in which every record comes in through a front end                 *)
(***************************************************************************)
FormNext ==
    \/ \E s \in CliSessions, x \in FormInputs, u \in SIDs, o \in DbOutcomes :
          CliAddRegistration(s, x[1], x[2], x[3], u, o)
    \/ \E s \in WebSessions, x \in FormInputs, f \in BOOLEAN, u \in SIDs,
          o \in DbOutcomes : SubmitForm(s, x[1], x[2], x[3], f, u, o)
    \/ \E s \in Managers, x \in FormInputs, u \in SIDs, o \in SaveOutcomes :
          SimpleAddRegistration(s, x[1], x[2], x[3], u, o)

FormSpec == Init /\ [][FormNext]_vars

(***************************************************************************)
(* Runs of the front ends from their start, in any environment             *)
(***************************************************************************)
StartInit ==
    /\ backend = "mysql"
    /\ config \in Configs
    /\ serial = TRUE
    /\ auth = [s \in WebSessions |-> LoggedOut]
    /\ peer = <<>>
    /\ now = 0
    /\ file = [valid |-> TRUE, recs |-> <<>>]
    /\ data = load_data(file)
    /\ table = {}
    /\ autoInc = 1
    /\ openConns = 0
    /\ pc = [s \in Sessions |-> IF s \in ToolSessions THEN "idle" ELSE "startup"]
    /\ loc = [s \in Sessions |-> NoLoc]
    /\ ev = NoEv

StartNext ==
    \/ \E s \in CliSessions, o \in DbOutcomes : CliStart(s, o)
    \/ \E s \in WebSessions, o \in DbOutcomes : WebStart(s, o)
    \/ \E s \in WebSessions : Rerun(s)
    \/ \E s \in CliSessions, o \in DbOutcomes : CliReinit(s, o)
    \/ \E s \in CliSessions, x \in FormInputs, u \in SIDs, o \in DbOutcomes :
          CliAddRegistration(s, x[1], x[2], x[3], u, o)
    \/ \E s \in CliSessions, o \in DbOutcomes :
          DbView(s, None, None, NoLimit, o)
    \/ \E s \in CliSessions, u \in SIDs, o \in DbOutcomes :
          DbDeleteSelect(s, u, 0, o)
    \/ \E s \in CliSessions, c \in Confirmations, o \in DbOutcomes :
          DbDeleteConfirm(s, c, o)
    \/ \E s \in CliSessions, o \in DbOutcomes : DbGetStatistics(s, o)
    \/ \E s \in WebSessions, x \in FormInputs, f \in BOOLEAN, u \in SIDs,
          o \in DbOutcomes : SubmitForm(s, x[1], x[2], x[3], f, u, o)
    \/ \E s \in ToolSessions, o \in DbOutcomes : ExportAllImages(s, o)

StartSpec == StartInit /\ [][StartNext]_vars

(***************************************************************************)
(* Runs that export the records                                            *)
(***************************************************************************)
\* names with a comma, a quote and a line break in them, and a record
\* without links
CsvSubmissions ==
    { <<<<"a", ",", "b">>, <<"A", "r", "t">>, <<"h", ":", "x">>>>,
      <<<<"a", "\"", "b">>, <<"A", "r", "t">>, <<"h", ":", "x">>>>,
      <<<<"a", "\n", "b">>, <<"A", "r", "t">>, <<"h", ":", "x">>>>,
      <<<<"B", "o">>, <<"A", "r", "t">>, None>> }

ExportNext ==
    \/ \E s \in Managers, x \in CsvSubmissions, u \in SIDs, o \in SaveOutcomes :
          SimpleAdd(s, x[1], x[2], x[3], u, o)
    \/ \E s \in Managers, o \in SaveOutcomes : SimpleExportToCsv(s, o)
    \/ \E s \in CliSessions, x \in CsvSubmissions, u \in SIDs, o \in DbOutcomes :
          DbAdd(s, x[1], x[2], x[3], u, o)
    \/ \E s \in CliSessions, o \in DbOutcomes : DbExportToCsv(s, o)
    \/ \E s \in WebSessions, o \in DbOutcomes : AdminExport(s, o)

ExportSpec == Init /\ [][ExportNext]_vars

(***************************************************************************)
(* Runs of adds and deletes on both stores, with every answer to the       *)
(* confirmation prompt and every outcome of a write or a statement         *)
(***************************************************************************)
DeleteNext ==
    \/ \E s \in Managers, u \in SIDs, o \in SaveOutcomes :
          SimpleAdd(s, <<"A", "n", "n">>, <<"A", "r", "t">>, None, u, o)
    \/ \E s \in Managers, k \in DeleteKeys, c \in Confirmations,
          o \in SaveOutcomes : SimpleDelete(s, k[1], k[2], c, o)
    \/ \E s \in CliSessions, u \in SIDs, o \in DbOutcomes :
          DbAdd(s, <<"A", "n", "n">>, <<"A", "r", "t">>, None, u, o)
    \/ \E s \in CliSessions, k \in DeleteKeys, o \in DbOutcomes :
          DbDeleteSelect(s, k[1], k[2], o)
    \/ \E s \in CliSessions, c \in Confirmations, o \in DbOutcomes :
          DbDeleteConfirm(s, c, o)

DeleteSpec == Init /\ [][DeleteNext]_vars

(***************************************************************************)
(* Runs of two browser sessions that start logged out, beside the          *)
(* command-line tool that stores the records                               *)
(***************************************************************************)
Browsers == WebSessions \cup PeerSessions

AuthInit ==
    /\ backend = "mysql"
    /\ config = RequiredKeys
    /\ serial = TRUE
    /\ auth = [s \in Browsers |-> LoggedOut]
    /\ peer = <<>>
    /\ now = 0
    /\ file = [valid |-> TRUE, recs |-> <<>>]
    /\ data = load_data(file)
    /\ table = {}
    /\ autoInc = 1
    /\ openConns = 0
    /\ pc = [s \in Sessions |-> "idle"]
    /\ loc = [s \in Sessions |-> NoLoc]
    /\ ev = NoEv

AuthNext ==
    \/ \E s \in Browsers, p \in Passwords : AdminLogin(s, p)
    \/ \E s \in Browsers : AdminLogout(s)
    \/ \E s \in Browsers, p \in Passwords : SubmissionsLogin(s, p)
    \/ \E s \in Browsers : SubmissionsLogout(s)
    \/ \E s \in Browsers : AdminStatistics(s, "ok")
    \/ \E s \in Browsers : AdminExport(s, "ok")
    \/ \E s \in Browsers : ClearCount(s, "ok")
    \/ \E s \in Browsers : ClearDelete(s, "ok")
    \/ \E s \in Browsers : ClearVerify(s, "ok")
    \/ \E s \in Browsers, u \in SIDs : GetPhotoData(s, u, "ok")
    \/ \E s \in CliSessions, u \in SIDs :
          DbAdd(s, <<"A", "n", "n">>, <<"A", "r", "t">>, None, u, "ok")

AuthSpec == AuthInit /\ [][AuthNext]_vars

(***************************************************************************)
(* Runs of two managers constructed on the same, empty, file; every write  *)
(* of the file succeeds                                                    *)
(***************************************************************************)
PairInit ==
    /\ backend = "json"
    /\ config = RequiredKeys
    /\ serial = TRUE
    /\ auth = [s \in WebSessions |-> LoggedIn]
    /\ now = 0
    /\ file = [valid |-> TRUE, recs |-> <<>>]
    /\ data = load_data(file)
    /\ peer = load_data(file)
    /\ table = {}
    /\ autoInc = 1
    /\ openConns = 0
    /\ pc = [s \in Sessions |-> "idle"]
    /\ loc = [s \in Sessions |-> NoLoc]
    /\ ev = NoEv

PairNext ==
    \/ \E s \in Managers, x \in Submissions, u \in SIDs :
          SimpleAdd(s, x[1], x[2], x[3], u, "ok")
    \/ \E s \in Managers, u \in SIDs :
          SimpleDelete(s, u, 0, <<"y", "e", "s">>, "ok")
    \/ \E s \in PeerManagers, x \in Submissions, u \in SIDs :
          PeerAdd(s, x[1], x[2], x[3], u, "ok")
    \/ \E s \in PeerManagers, u \in SIDs :
          PeerDelete(s, u, 0, <<"y", "e", "s">>, "ok")

PairSpec == PairInit /\ [][PairNext]_vars

(***************************************************************************)
(* Runs in which the clients of the database do not take turns: two        *)
(* processes of the command-line tool and an admin session, each statement *)
(* and its commit one step                                                 *)
(***************************************************************************)
RaceInit ==
    /\ backend = "mysql"
    /\ config = RequiredKeys
    /\ serial = FALSE
    /\ auth = [s \in WebSessions |-> LoggedIn]
    /\ peer = <<>>
    /\ now = 0
    /\ file = [valid |-> TRUE, recs |-> <<>>]
    /\ data = load_data(file)
    /\ table = {}
    /\ autoInc = 1
    /\ openConns = 0
    /\ pc = [s \in Sessions |-> "idle"]
    /\ loc = [s \in Sessions |-> NoLoc]
    /\ ev = NoEv

RaceNext ==
    \/ \E s \in CliSessions \cup PeerSessions, u \in SIDs :
          DbAdd(s, <<"A", "n", "n">>, <<"A", "r", "t">>, None, u, "ok")
    \/ \E s \in CliSessions \cup PeerSessions, u \in SIDs :
          DbDeleteSelect(s, u, 0, "ok")
    \/ \E s \in CliSessions \cup PeerSessions, c \in Confirmations :
          DbDeleteConfirm(s, c, "ok")
    \/ \E s \in WebSessions : ClearCount(s, "ok")
    \/ \E s \in WebSessions : ClearDelete(s, "ok")
    \/ \E s \in WebSessions : ClearVerify(s, "ok")

RaceSpec == RaceInit /\ [][RaceNext]_vars

(***************************************************************************)
(* Properties                                                              *)
(***************************************************************************)
AllIdle == \A s \in Sessions : pc[s] = "idle"

\* the key (submission_id, or id when no submission_id is given) names r
Named(r, sid, rid) == IF sid # "" THEN r.sid = sid ELSE rid # 0 /\ r.id = rid

\* the record r is the one a delete call with the key of event e names
KeyMatches(r, e) == Named(r, e.sid, e.rid)

\* no stored record is named by the key
NoMatch(sid, rid) ==
    /\ \A i \in DOMAIN data : ~Named(data[i], sid, rid)
    /\ \A r \in table : ~Named(r, sid, rid)

\* C1: after any sequence of add_record and delete_record calls no two stored
\* records have the same id.
C1_UniqueIds ==
    /\ \A i, j \in DOMAIN data : i # j => data[i].id # data[j].id
    /\ \A r, q \in table : r # q => r.id # q.id

\* a record that stays in the store keeps its submission_id over a step
SubmissionIdKept ==
    /\ \A r \in table, q \in table' : r.id = q.id => r.sid = q.sid
    /\ \/ /\ Len(data') >= Len(data)
          /\ \A i \in DOMAIN data : data'[i].sid = data[i].sid
       \/ \E i \in DOMAIN data : data' = Pop(data, i)

UniqueSubmissionIds ==
    /\ \A i, j \in DOMAIN data : i # j => data[i].sid # data[j].sid
    /\ \A r, q \in table : r # q => r.sid # q.sid

\* C2: no two stored records share a submission_id, and a stored record's
\* submission_id never changes between its creation and its deletion.
C2_SubmissionIdUniqueImmutable ==
    [](UniqueSubmissionIds) /\ [][SubmissionIdKept]_vars

\* C3: delete_record with a submission_id (or id) that matches no stored record
\* returns False, raises nothing, and leaves the number of stored records as
\* it was.
C3_DeleteNoMatch ==
    [][(/\ ev'.op = "delete"
        /\ pc[ev'.s] = "idle"
        /\ NoMatch(ev'.sid, ev'.rid))
       => (/\ ev'.done
           /\ ~ev'.ok
           /\ ~ev'.raised
           /\ Len(data') = Len(data)
           /\ Cardinality(table') = Cardinality(table))]_vars

\* a delete call that named no stored record has returned, with records stored
C3_Witness ==
    /\ ev.op = "delete"
    /\ ev.done
    /\ ~ev.dbfail
    /\ NoMatch(ev.sid, ev.rid)
    /\ (data # <<>> \/ table # {})

\* what get_record_by_id returns for the submission_id of the last add
LookupLastAdded ==
    IF backend = "json" THEN SimpleGetRecordById(data, ev.sid)
    ELSE DbGetRecordById(table, ev.sid)

\* C4: after a successful add_record, get_record_by_id with the assigned
\* submission_id returns a record whose name, committee and social_media_links
\* are the values passed in.
C4_AddThenGet ==
    (ev.op = "add" /\ ev.ok) =>
        /\ LookupLastAdded # <<>>
        /\ LookupLastAdded[1].name = ev.name
        /\ LookupLastAdded[1].committee = ev.committee
        /\ LookupLastAdded[1].links = ev.links

\* C5: a delete_record call that returns success removes exactly one record,
\* the one with the given submission_id (or id), and keeps every other record;
\* no delete_record call removes more than one record.
C5_DeleteExactlyOne ==
    [][ev'.op = "delete" =>
        /\ (ev'.done /\ ev'.ok) =>
              IF backend = "json"
              THEN \E i \in DOMAIN data :
                      KeyMatches(data[i], ev') /\ data' = Pop(data, i)
              ELSE \E r \in table :
                      KeyMatches(r, ev') /\ table' = table \ {r}
        /\ data' = data \/ \E i \in DOMAIN data : data' = Pop(data, i)
        /\ table' \subseteq table
        /\ Cardinality(table \ table') <= 1]_vars

\* a DELETE has removed its row and returned success, another row is still
\* stored
C5_Witness ==
    /\ backend = "mysql"
    /\ ev.op = "delete"
    /\ ev.done
    /\ ev.ok
    /\ ev.removed = 1
    /\ table # {}

\* C6: clear-all with no other writer active on a table of N rows reports N
\* deleted records and leaves the table with 0 rows.
C6_ClearAllReportsN ==
    [][\A s \in Sessions :
        /\ (pc[s] = "clear_delete" /\ pc'[s] = "clear_verify") =>
              (loc[s].before = Cardinality(table) /\ table' = {})
        /\ (pc[s] = "clear_verify" /\ ev'.op = "clear"
            /\ ev'.done /\ ~ev'.dbfail) =>
              (ev'.ok /\ ev'.count = loc[s].before
               /\ ev'.count = ev'.removed /\ table' = {})]_vars

\* clear-all has reported two deleted records
C6_Witness ==
    /\ ev.op = "clear"
    /\ ev.done
    /\ ev.ok
    /\ ev.count = 2
    /\ table = {}

\* C7: every store operation closes the connection it opened before it
\* returns, on every exit path; once the operations have finished no
\* connection is open.
C7_ConnectionsClosed == AllIdle => openConns = 0

\* what the caller of view_records, get_record_by_id or delete_record receives
Outcome(e) ==
    [ret |-> IF e.op = "delete" THEN <<e.ok>> ELSE e.rows, raised |-> e.raised]

\* what the caller receives when the operation ran and matched no rows
NoRowsOutcome(op) ==
    [ret |-> IF op = "delete" THEN <<FALSE>> ELSE <<>>, raised |-> FALSE]

\* C8: for view_records, get_record_by_id and delete_record the outcome of a
\* failed connection or statement differs from the outcome of a call that
\* matched no rows.
C8_FailureDistinguishable ==
    (ev.op \in {"view", "get", "delete"} /\ ev.done /\ ev.dbfail) =>
        Outcome(ev) # NoRowsOutcome(ev.op)

\* C9: view_records(committee=c) with c non-empty returns no record whose
\* committee does not contain c as a case-insensitive substring.
C9_CommitteeFilterSound ==
    (ev.op = "view" /\ Truthy(ev.committee)) =>
        \A i \in DOMAIN ev.rows :
            Contains(Lower(ev.committee), Lower(ev.rows[i].committee))

\* the stored records
Stored == IF backend = "json" THEN {data[i] : i \in DOMAIN data} ELSE table

\* C10: without a limit, a listing that ran returns exactly the stored records
\* whose committee contains the committee filter and whose name contains the
\* name filter, case-insensitively; an absent filter excludes nothing.
C10_ListingExact ==
    (ev.op = "view" /\ ev.limit = NoLimit /\ ~ev.dbfail) =>
        {ev.rows[i] : i \in DOMAIN ev.rows} =
            {r \in Stored :
                /\ Truthy(ev.committee) =>
                      Contains(Lower(ev.committee), Lower(r.committee))
                /\ Truthy(ev.name) => Contains(Lower(ev.name), Lower(r.name))}

\* C11: in every sequence view_records returns, whatever the filters and the
\* limit, each record's submission_date is greater than or equal to that of
\* the record that follows it (newest first).
C11_NewestFirst ==
    ev.op = "view" =>
        \A i, j \in DOMAIN ev.rows :
            i < j => ev.rows[i].date >= ev.rows[j].date

\* a listing of the table has returned a record ahead of an older one
C11_Witness ==
    /\ backend = "mysql"
    /\ ev.op = "view"
    /\ Len(ev.rows) >= 2
    /\ ev.rows[1].date > ev.rows[2].date

\* the listings the call returns when no limit is given
UnlimitedListings(committee, search_name) ==
    IF backend = "json"
    THEN {SimpleViewRecords(data, committee, search_name, NoLimit)}
    ELSE OrderedByDateDesc(ViewWhere(table, committee, search_name))

\* list[:n]
FirstN(q, n) == SubSeq(q, 1, IF n < Len(q) THEN n ELSE Len(q))

\* C12: for every integer limit n >= 0 given to view_records, n = 0 included,
\* the result has at most n records and is the first n records of the result
\* of the same call without a limit.
C12_LimitIsPrefix ==
    (ev.op = "view" /\ ev.limit >= 0 /\ ~ev.dbfail) =>
        /\ Len(ev.rows) <= ev.limit
        /\ \E q \in UnlimitedListings(ev.committee, ev.name) :
              ev.rows = FirstN(q, ev.limit)

\* the number of stored records
StoredCount == IF backend = "json" THEN Len(data) ELSE Cardinality(table)

\* the number of stored records whose social_media_links is present and
\* non-empty
WithLinksCount ==
    IF backend = "json"
    THEN Cardinality({i \in DOMAIN data : Truthy(data[i].links)})
    ELSE Cardinality({r \in table : Truthy(r.links)})

\* C13: after any sequence of successful inserts and deletes the statistics
\* operation reports total equal to the number of stored records and
\* with_social_media equal to the number of stored records whose
\* social_media_links is present and non-empty; get_statistics always
\* reports, the admin panel reports when the table has rows.
C13_StatisticsCounts ==
    (ev.op \in {"stats", "admin_stats"} /\ ~ev.dbfail) =>
        /\ ev.op = "stats" => ev.stats # <<>>
        /\ ev.stats # <<>> =>
              /\ ev.stats[1].total_records = StoredCount
              /\ ev.stats[1].with_social_media = WithLinksCount

\* the number of stored records not older than RecentDays days
RecentCount ==
    IF backend = "json"
    THEN Cardinality({i \in DOMAIN data : data[i].date >= now - RecentDays})
    ELSE Cardinality({r \in table : r.date >= now - RecentDays})

\* C14: the recent_records value get_statistics returns is the number of
\* stored records whose submission_date is greater than or equal to the call
\* time minus 7 days.
C14_RecentRecords ==
    (ev.op = "stats" /\ ~ev.dbfail) =>
        /\ ev.stats # <<>>
        /\ ev.stats[1].recent_records = RecentCount

\* the number of stored records whose committee is exactly c
CommitteeCount(c) ==
    IF backend = "json"
    THEN Cardinality({i \in DOMAIN data : data[i].committee = c})
    ELSE Cardinality({r \in table : r.committee = c})

\* C15: committee_stats of get_statistics has exactly one entry per distinct
\* exact committee string among the stored records, each with the number of
\* records of that committee, in non-increasing order of count.
C15_CommitteeStats ==
    (ev.op = "stats" /\ ~ev.dbfail) =>
        /\ ev.stats # <<>>
        /\ LET cs == ev.stats[1].committee_stats
           IN /\ {cs[i].committee : i \in DOMAIN cs} =
                    {r.committee : r \in Stored}
              /\ \A i, j \in DOMAIN cs :
                    i # j => cs[i].committee # cs[j].committee
              /\ \A i \in DOMAIN cs :
                    cs[i].count = CommitteeCount(cs[i].committee)
              /\ \A i, j \in DOMAIN cs : i < j => cs[i].count >= cs[j].count

\* C16: every record stored through a front end's add path has a non-empty
\* name and a non-empty committee, for every user input, inputs made only of
\* whitespace included.
C16_NameCommitteeNonEmpty ==
    \A r \in Stored : r.name # <<>> /\ r.committee # <<>>

\* every non-empty entry of a comma-separated list is, once trimmed, a URL
LinksValid(links) ==
    \A i \in DOMAIN Split(links) :
        Strip(Split(links)[i]) # <<>> => IsUrl(Strip(Split(links)[i]))

\* C17: every stored record whose social_media_links is present holds a
\* comma-separated list whose non-empty entries, once trimmed, begin with
\* http:// or https://; an add whose links have an entry that does not is
\* rejected and stores nothing.
C17_LinksAreUrls ==
    /\ [](\A r \in Stored : r.links # None => LinksValid(r.links))
    /\ [][(/\ ev'.op \in {"add", "add_rejected"}
           /\ ev'.links # None
           /\ ~LinksValid(ev'.links))
          => (ev'.op = "add_rejected" /\ data' = data /\ table' = table)]_vars

\* a stored record carries the submission_id
SidStored(sid) ==
    \/ \E i \in DOMAIN data : data[i].sid = sid
    \/ \E r \in table : r.sid = sid

\* C18: an insert whose submission_id is that of a stored record is reported
\* to the caller as failed, stores no new record and leaves the stored
\* records as they were; the store does not retry it with another
\* identifier.
C18_DuplicateInsertFails ==
    [][(ev'.op = "add" /\ SidStored(ev'.sid))
       => (~ev'.ok /\ data' = data /\ table' = table)]_vars

\* the steps that reach for a database connection
ConnectingOps ==
    {"init", "reinit", "add", "view", "get", "delete", "stats", "admin_stats",
     "photo", "clear", "export_images"}

\* C19: when host, user, password or database name is missing from the
\* configuration, every entry point that creates database connections
\* signals a configuration error and attempts no connection.
C19_IncompleteConfigNoConnect ==
    (~ConfigComplete /\ ev.op \in ConnectingOps) =>
        (ev.cfgerr /\ ~ev.attempt)

\* the operations of the record store
StoreOps ==
    {"add", "view", "get", "delete", "stats", "admin_stats", "photo", "clear",
     "export_images"}

\* C20: when init_database fails at startup, no record-store operation (add,
\* view, delete, search, statistics, export) is executed afterwards in that
\* run of the front end: the run is over, and it stays over until the
\* script is run anew.
C20_NoOpsAfterFailedInit ==
    [][\A s \in CliSessions \cup WebSessions :
        /\ (pc[s] = "startup" /\ ev'.s = s /\ ev'.op = "init" /\ ~ev'.ok)
              => pc'[s] \in {"exited", "stopped"}
        /\ pc[s] \in {"exited", "stopped"}
              => ~(ev'.s = s /\ ev'.op \in StoreOps)
        /\ pc[s] = "exited" => pc'[s] = "exited"
        /\ pc[s] = "stopped" => pc'[s] \in {"stopped", "startup"}]_vars

\* the command-line front end has ended on a failed init_database with a
\* complete configuration, and the web front end has stored a record since
C20_Witness ==
    /\ ConfigComplete
    /\ \E s \in CliSessions : pc[s] = "exited"
    /\ ev.s \in WebSessions
    /\ ev.op = "add"
    /\ ev.ok

\* over a step every record that stays in the store keeps all its fields:
\* a row is told by its id, a list entry by its place in the list, which
\* grows at the end and loses one entry at a time
RecordsKept ==
    /\ \A r \in table, q \in table' : r.id = q.id => r = q
    /\ \/ data' = data
       \/ Len(data') = Len(data) + 1 /\ SubSeq(data', 1, Len(data)) = data
       \/ \E i \in DOMAIN data :
             data' = SubSeq(data, 1, i - 1) \o SubSeq(data, i + 1, Len(data))

\* C21: no operation changes a field of an existing record: from the insert
\* that creates it to the delete that removes it, its id, submission_id,
\* name, committee, social_media_links and submission_date stay as they are
\* under every sequence of add, delete, view, search, statistics and export.
C21_RecordsImmutable == [][RecordsKept]_vars

\* the first record of the list has been deleted and the record behind it is
\* still stored, under the id it was given
C21_Witness ==
    /\ backend = "json"
    /\ ev.op = "delete"
    /\ ev.ok
    /\ Len(data) = 1
    /\ data[1].id = 2

RECURSIVE CsvScan(_, _, _, _, _)
\* a reader of comma-separated text: a quote at the start of a field opens
\* a quoted field, in which a doubled quote is a quote and commas and line
\* breaks are data; a comma ends a field, a line break a record
CsvScan(txt, quoted, field, row, rows) ==
    IF txt = <<>>
    THEN IF field = <<>> /\ row = <<>> THEN rows
         ELSE Append(rows, Append(row, field))
    ELSE LET c == Head(txt)
             rest == Tail(txt)
         IN IF quoted
            THEN IF c # "\""
                 THEN CsvScan(rest, TRUE, Append(field, c), row, rows)
                 ELSE IF rest # <<>> /\ Head(rest) = "\""
                 THEN CsvScan(Tail(rest), TRUE, Append(field, c), row, rows)
                 ELSE CsvScan(rest, FALSE, field, row, rows)
            ELSE IF c = "\"" /\ field = <<>>
            THEN CsvScan(rest, TRUE, field, row, rows)
            ELSE IF c = ","
            THEN CsvScan(rest, FALSE, <<>>, Append(row, field), rows)
            ELSE IF c = "\n"
            THEN CsvScan(rest, FALSE, <<>>, <<>>,
                         Append(rows, Append(row, field)))
            ELSE CsvScan(rest, FALSE, Append(field, c), row, rows)

ParseCsv(txt) == CsvScan(txt, FALSE, <<>>, <<>>, <<>>)

\* the value of a field as text, an absent value being the empty field
TextOf(value) == IF value = None THEN <<>> ELSE value

\* the values of the exported columns of a record of the list
ExportedValues(r) ==
    <<Str(r.id), SidText(r.sid), TextOf(r.name), TextOf(r.committee),
      TextOf(r.links), TextOf(None), TextOf(None), Str(r.date)>>

\* C22: for every stored record and every exported field value, values with
\* commas, double quotes or line breaks and absent values included, reading
\* the record's line of the CSV export by the standard CSV rules gives one
\* field per column, each equal to the original value.
C22_CsvRoundTrip ==
    (ev.op = "export" /\ ev.ok) =>
        \A i \in DOMAIN data :
            ParseCsv(ev.csv[i]) = <<ExportedValues(data[i])>>

\* C23: every CSV export has the header columns id, submission_id, name,
\* committee, social_media_links, photo_filename, submission_date in that
\* order, exactly one data row per stored record, and no photo_data column.
C23_CsvHeaderAndRows ==
    (ev.op \in {"export", "db_export", "admin_export"} /\ ev.ok) =>
        /\ ev.header = <<"id", "submission_id", "name", "committee",
                         "social_media_links", "photo_filename",
                         "submission_date">>
        /\ ev.count = StoredCount

\* C24: while other sessions insert, under every interleaving of the count,
\* the delete and the verification of clear-all with the inserts, the count
\* the clear-all reports as deleted is the number of rows its delete
\* removed.
C24_ClearCountIsRemoved ==
    (ev.op = "clear" /\ ev.ok) => ev.count = ev.removed

\* a confirmed delete by submission_id that got its answer from the database
ConfirmedDeleteStep ==
    /\ ev'.op = "delete" /\ ev'.done /\ ~ev'.dbfail
    /\ ev'.sid # ""
    /\ pc[ev'.s] = "confirm"
    /\ Lower(ev'.confirm) = <<"y", "e", "s">>

\* C29: when two sessions delete the same existing submission_id and both
\* confirm, then under every interleaving of their SELECT and DELETE steps
\* exactly one call returns True and the other False, and the record is
\* absent afterwards: a confirmed delete returns True exactly when the
\* record was still there for its DELETE, and leaves no record with that
\* submission_id, so the later of the two finds none and returns False.
C29_OneDeleterWins ==
    [][ConfirmedDeleteStep =>
          /\ ev'.ok <=> (\E r \in table : r.sid = ev'.sid)
          /\ \A r \in table' : r.sid # ev'.sid
          /\ \A t \in Sessions \ {ev'.s} :
                (pc[t] = "confirm" /\ loc[t].sid = ev'.sid) =>
                    (pc'[t] = "confirm" /\ loc'[t].sid = ev'.sid)]_vars

\* the second of two confirmed deletes of one record: it had found the
\* record, and its DELETE removed nothing
C29_Witness ==
    /\ ev.op = "delete" /\ ev.done /\ ~ev.dbfail /\ ~ev.ok
    /\ Lower(ev.confirm) = <<"y", "e", "s">>
    /\ ev.removed = 0
    /\ \A r \in table : r.sid # ev.sid

\* C25: init_database called any number of times on the existing table
\* returns success each time the database answers, and leaves the stored
\* records as they are.
C25_InitIdempotent ==
    [][ev'.op \in {"init", "reinit"} =>
          /\ table' = table
          /\ (~ev'.dbfail /\ ~ev'.cfgerr) => ev'.ok]_vars

\* init_database run again from the menu, with success, on a table that
\* holds a record
C25_Witness ==
    /\ ev.op = "reinit"
    /\ ev.ok
    /\ table # {}

\* C26: whenever add_record or delete_record of SimpleRegistrationManager
\* returns False, a failed write of the file included, the list in memory
\* is the list of before the call and is the content last written to the
\* file.
C26_FalseLeavesMemoryAndFile ==
    [][(backend = "json" /\ ev'.op \in {"add", "delete"} /\ ~ev'.ok) =>
          /\ data' = data
          /\ file'.valid
          /\ data' = file'.recs]_vars

\* the file holds a record with the submission_id of r
InFile(r) == file.valid /\ \E j \in DOMAIN file.recs : file.recs[j].sid = r.sid

\* C27: with two SimpleRegistrationManager instances on the same file, every
\* record whose add returned True and that no delete removed is in the file:
\* each manager's list holds the records it added with success and has not
\* deleted, and neither manager can delete a record of the other's list.
C27_AddedRecordsInFile ==
    /\ \A i \in DOMAIN data : InFile(data[i])
    /\ \A i \in DOMAIN peer : InFile(peer[i])

\* C28: delete_record removes a record only when the confirmation text,
\* lowercased, is exactly 'yes'; on any other confirmation it returns False
\* and the stored records are unchanged.
C28_DeleteNeedsYes ==
    [][(ev'.op = "delete" /\ Lower(ev'.confirm) # <<"y", "e", "s">>) =>
          /\ ~ev'.ok
          /\ data' = data
          /\ file' = file
          /\ table' = table]_vars

\* a delete of a stored record was answered with something other than yes,
\* and the record is still stored
C28_Witness ==
    /\ ev.op = "delete"
    /\ ev.done
    /\ ev.confirm = <<"n", "o">>
    /\ ~NoMatch(ev.sid, ev.rid)

\* the functions of the admin panel: statistics, CSV export, clear-all
AdminOps == {"admin_stats", "admin_export", "clear"}

\* C30: the functions of the admin panel (statistics, CSV export, clear-all)
\* run only while the session's own admin_authenticated flag is true; the
\* flag becomes true only through Login with the entered password equal to
\* the configured admin password, becomes false on Logout, and is not set by
\* authenticating on the View Submissions page.
C30_AdminOnlyWhenAuthenticated ==
    [][\A s \in DOMAIN auth :
        /\ (ev'.s = s /\ ev'.op \in AdminOps) => auth[s].admin
        /\ (~auth[s].admin /\ auth'[s].admin) =>
              (/\ ev'.s = s
               /\ ev'.op = "admin_login"
               /\ ev'.password = <<"a", "d", "m", "i", "n", "1", "2", "3">>)
        /\ (ev'.s = s /\ ev'.op = "admin_logout") => ~auth'[s].admin
        /\ (auth[s].admin /\ ~auth'[s].admin) =>
              (ev'.s = s /\ ev'.op = "admin_logout")
        /\ ev'.op = "submissions_login" => auth'[s].admin = auth[s].admin]_vars

\* a session logged in to the admin panel has run one of its functions while
\* another session, authenticated on the View Submissions page only, has no
\* admin access
C30_Witness ==
    /\ ev.op \in AdminOps
    /\ ev.s \in DOMAIN auth
    /\ auth[ev.s].admin
    /\ \E t \in DOMAIN auth \ {ev.s} : auth[t].submissions /\ ~auth[t].admin
====
